---------------------------- MODULE Spec2Model ----------------------------
(***************************************************************************)
(* Product analytics dashboard: the synthetic event log of                 *)
(* data_generator.py, the row filter of dashboard.py and the analytics    *)
(* functions of analytics.py, as a state machine.                          *)
(*                                                                         *)
(* An event collection (a pandas DataFrame) is a set of event records;    *)
(* the generator writes one event per user and event type, so no two rows *)
(* are equal and the row index carries no information.                     *)
(*                                                                         *)
(* Dates are day numbers counted from START_DATE.  The calendar is scaled *)
(* down: a month has MonthLen days and the data window ends at END_DATE.  *)
(***************************************************************************)
EXTENDS Integers, Sequences, FiniteSets, TLC

VARIABLES
    raw_df,      \* dashboard.py raw_df: the collection load_data returned
    df,          \* dashboard.py df: raw_df under the sidebar filters
    result,      \* what the last analytics call returned or raised
    rfm_repeat,  \* whether the call that gave result was a
                 \* compute_rfm_segments call that followed one with the
                 \* same collection and the same n_clusters
    np_random,   \* state of NumPy's process-wide generator (np.random)
    st_cache     \* Streamlit's st.cache_data store of get_cohort and
                 \* get_rfm: per function, what is stored for it

vars == <<raw_df, df, result, rfm_repeat, np_random, st_cache>>

---------------------------------------------------------------------------
(* Bounds of the model *)

\* users per generated collection (N_USERS, scaled down)
NUsers == 2
\* last day of the data window (END_DATE - START_DATE in days, scaled down)
END_DATE == 2
\* days per calendar month (scaled down)
MonthLen == 2

START_DATE == 0

---------------------------------------------------------------------------
(* Floating point values: a finite value is an exact fraction n/d in       *)
(* lowest terms, the others are IEEE's nan, inf and -inf.                  *)

Abs(x) == IF x < 0 THEN -x ELSE x

RECURSIVE Gcd(_, _)
Gcd(a, b) == IF b = 0 THEN a ELSE Gcd(b, a % b)

NaN    == [t |-> "nan",  n |-> 0, d |-> 1]
PosInf == [t |-> "inf",  n |-> 0, d |-> 1]
NegInf == [t |-> "-inf", n |-> 0, d |-> 1]

Fin(n, d) ==
    LET g == Gcd(Abs(n), d)
    IN  IF n = 0 THEN [t |-> "fin", n |-> 0, d |-> 1]
        ELSE [t |-> "fin", n |-> n \div g, d |-> d \div g]

Num(i) == Fin(i, 1)

IsFin(x) == x.t = "fin"
IsNaN(x) == x.t = "nan"

\* -1, 0, 1 for a value that is not nan
Sign(x) ==
    CASE x.t = "inf"  -> 1
      [] x.t = "-inf" -> -1
      [] OTHER        -> IF x.n > 0 THEN 1 ELSE IF x.n < 0 THEN -1 ELSE 0

Signed(s) == IF s > 0 THEN PosInf ELSE NegInf

\* numpy / pandas true division: x/0 is inf or -inf, 0/0 is nan, no exception
NpDiv(x, y) ==
    CASE IsNaN(x) \/ IsNaN(y)       -> NaN
      [] ~IsFin(x) /\ ~IsFin(y)     -> NaN
      [] ~IsFin(x)                  -> IF Sign(y) >= 0 THEN x
                                       ELSE Signed(-Sign(x))
      [] ~IsFin(y)                  -> Num(0)
      [] y.n = 0 /\ x.n = 0         -> NaN
      [] y.n = 0                    -> Signed(x.n)
      [] OTHER                      ->
            IF y.n > 0 THEN Fin(x.n * y.d, x.d * y.n)
            ELSE Fin(-(x.n * y.d), x.d * (-y.n))

\* x * c for a finite c > 0
NpScale(x, c) == IF IsFin(x) THEN Fin(x.n * c, x.d) ELSE x

\* c - x for a finite integer c
NpRSub(c, x) ==
    CASE IsNaN(x)      -> NaN
      [] x.t = "inf"   -> NegInf
      [] x.t = "-inf"  -> PosInf
      [] OTHER         -> Fin(c * x.d - x.n, x.d)

\* Series.round(1): to one decimal, a tie to the even digit; nan and inf stay
Round1(x) ==
    IF ~IsFin(x) THEN x
    ELSE LET num == 10 * x.n
             lo  == IF num >= 0 THEN num \div x.d
                    ELSE -((-num + x.d - 1) \div x.d)
             rem == num - lo * x.d
             q   == CASE 2 * rem < x.d -> lo
                      [] 2 * rem > x.d -> lo + 1
                      [] OTHER         -> IF lo % 2 = 0 THEN lo ELSE lo + 1
         IN  Fin(q, 10)

\* x <= y for finite values
FinLeq(x, y) == x.n * y.d <= y.n * x.d

\* a percentage: a number between 0 and 100
InPercentRange(x) == IsFin(x) /\ FinLeq(Num(0), x) /\ FinLeq(x, Num(100))

---------------------------------------------------------------------------
(* Event schema and the generator (data_generator.py) *)

FUNNEL_STEPS == <<"signup", "login", "view_product", "add_to_cart", "purchase">>

\* the funnel of generate_events: the steps after signup
GenFunnel == <<"login", "view_product", "add_to_cart", "purchase">>

CHANNELS == {"organic", "paid_search"}
DEVICES  == {"desktop", "mobile"}
GROUPS   == {"A", "B"}

\* np.random.randint(1, 3): days between signup and the first funnel event
FirstGaps == 1..2
\* np.random.randint(0, 4): days a funnel step advances the clock
StepGaps == 0..3
\* np.random.lognormal revenue of a purchase, in whole currency units
Revenues == {40, 100}

Event(uid, date, type, rev, dev, chan, grp, signup) ==
    [user_id |-> uid, event_date |-> date, event_type |-> type,
     revenue |-> rev, device_type |-> dev, acquisition_channel |-> chan,
     experiment_group |-> grp, signup_date |-> signup]

\* The dates of the funnel events a user can get once the clock stands at
\* cur and n steps are left: each step is taken or the chain ends (a random
\* drop-off, or a date after END_DATE).
RECURSIVE FunnelDates(_, _, _)
FunnelDates(cur, n, gaps) ==
    IF n = 0 THEN {<< >>}
    ELSE {<< >>} \cup
         UNION {{<<cur + g>> \o rest : rest \in FunnelDates(cur + g, n - 1, gaps)}
                : g \in {h \in gaps : cur + h <= END_DATE}}

\* a signup_date column that holds the last event_date of the user
SignupDateLast(rows) ==
    {[e EXCEPT !.signup_date = CHOOSE x \in {r.event_date : r \in rows} :
                                  \A r \in rows : r.event_date <= x] : e \in rows}

\* load_data: events.groupby("user_id")["event_date"].transform("min"), for
\* the rows of one user
SignupDateTransform(rows) ==
    {[e EXCEPT !.signup_date = CHOOSE x \in {r.event_date : r \in rows} :
                                  \A r \in rows : x <= r.event_date] : e \in rows}

\* One user's rows as generate_events appends them and load_data completes
\* them with signup_date.
UserRows(uid, signup, chan, dev, grp, dates, rev) ==
    SignupDateTransform(
        {Event(uid, signup, "signup", 0, dev, chan, grp, signup)} \cup
        {Event(uid, dates[i], GenFunnel[i],
               IF GenFunnel[i] = "purchase" THEN rev ELSE 0,
               dev, chan, grp, signup) : i \in 1..Len(dates)})

\* Every row set generate_events can write for one user (written here for
\* user 0), for signup days, clock steps, attributes and revenues drawn from
\* the given sets.
UserHistories(days, fgaps, sgaps, chans, devs, grps, revs) ==
    UNION {UNION {{UserRows(0, s, c, dv, g, dates, r)
                    : dates \in FunnelDates(s + f, Len(GenFunnel), sgaps)}
                  : f \in fgaps}
           : <<s, c, dv, g, r>> \in days \X chans \X devs \X grps \X revs}

\* The ways to give n users a history out of H, up to the order of the
\* users: user ids are opaque, so collections that differ only in which
\* user got which history are listed once.
RECURSIVE Combos(_, _)
Combos(H, n) ==
    IF n = 0 THEN {<< >>}
    ELSE IF H = {} THEN {}
    ELSE LET h == CHOOSE x \in H : TRUE
         IN  {<<h>> \o c : c \in Combos(H, n - 1)} \cup Combos(H \ {h}, n)

\* user_ids = np.arange(1, N_USERS + 1): the history of user i under id i
Collection(hs) ==
    UNION {{[e EXCEPT !.user_id = i] : e \in hs[i]} : i \in 1..Len(hs)}

Collections(n, H) == {Collection(hs) : hs \in Combos(H, n)}

SignupDays == START_DATE..(END_DATE - 1)

\* np.random.seed(SEED) at import; every row generate_events wrote took at
\* least one draw from the process-wide generator.  Generator states are
\* counted modulo RngStates.
SEED == 42
RngStates == 64
GeneratorStateAfter(d) == (SEED + Cardinality(d)) % RngStates


---------------------------------------------------------------------------
(* The sidebar filters (dashboard.py) *)

EventDates(d) == {e.event_date : e \in d}

SetMin(S) == CHOOSE x \in S : \A y \in S : x <= y
SetMax(S) == CHOOSE x \in S : \A y \in S : y <= x

\* st.date_input over [min_date, max_date]: a (start, end) pair, or a single
\* date while the user has picked only the first end of the range
DateInputs(d) ==
    LET lo == SetMin(EventDates(d))
        hi == SetMax(EventDates(d))
    IN  {p \in (lo..hi) \X (lo..hi) : p[1] <= p[2]} \cup {<<a>> : a \in lo..hi}

ChannelsAvailable(d) == {e.acquisition_channel : e \in d}
DevicesAvailable(d)  == {e.device_type : e \in d}

\* start_date, end_date = date_range if it has two ends, else the full window
DateWindow(d, date_range) ==
    IF Len(date_range) = 2 THEN date_range
    ELSE <<SetMin(EventDates(d)), SetMax(EventDates(d))>>

ApplyFilters(d, date_range, channels_sel, devices_sel) ==
    LET w == DateWindow(d, date_range)
    IN  {e \in d : /\ e.event_date >= w[1]
                   /\ e.event_date <= w[2]
                   /\ e.acquisition_channel \in channels_sel
                   /\ e.device_type \in devices_sel}

---------------------------------------------------------------------------
(* What a call returns or raises *)

NoResult == [fn |-> "none", args |-> << >>, raised |-> "", value |-> << >>]
Returned(fn, v) == [fn |-> fn, args |-> << >>, raised |-> "", value |-> v]
Raised(fn, err) == [fn |-> fn, args |-> << >>, raised |-> err, value |-> << >>]
\* the same with the arguments the call got besides the collection
WithArgs(r, args) == [r EXCEPT !.args = args]

Users(d) == {e.user_id : e \in d}
OfType(d, type) == {e \in d : e.event_type = type}

\* Series.nunique() of user_id
NUnique(d) == Cardinality(Users(d))

---------------------------------------------------------------------------
(* KPI calculations (analytics.py) *)

\* the ascending sequence of a set of day or month numbers: groupby sorts
\* its keys
RECURSIVE Ascending(_)
Ascending(S) ==
    IF S = {} THEN << >>
    ELSE LET lo == CHOOSE x \in S : \A y \in S : x <= y
         IN  <<lo>> \o Ascending(S \ {lo})

\* ["user_id"].count() of a group: its rows
GroupCount(rows) == Cardinality(rows)

\* ["user_id"].nunique() of a group: its distinct users
GroupNUnique(rows) == NUnique(rows)

\* df.groupby("event_date")["user_id"].nunique(): a row per date that
\* occurs, in the order of the dates
compute_dau(d) ==
    LET days == Ascending(EventDates(d))
    IN  [i \in 1..Len(days) |->
           [event_date |-> days[i],
            DAU        |-> GroupNUnique({e \in d : e.event_date = days[i]})]]

\* df.groupby("month")["user_id"].nunique(): a row per month that occurs,
\* in the order of the months
compute_mau(d) ==
    LET months == Ascending({e.event_date \div MonthLen : e \in d})
    IN  [i \in 1..Len(months) |->
           [month |-> months[i],
            MAU   |-> GroupNUnique({e \in d :
                                      e.event_date \div MonthLen = months[i]})]]

\* frame[name] = values: the frame with one more column, values[row] in
\* each row
WithColumn(frame, name, values) ==
    {[c \in (DOMAIN e) \cup {name} |-> IF c = name THEN values[e] ELSE e[c]]
        : e \in frame}

\* column assignments to the frame the caller passed: the caller's frame
\* is the one that gets the columns
AssignedInPlace(caller, working) == working

\* df = df.copy() first: the columns go to a frame of the function's own
\* and the caller's frame stays as it was
AssignedToCopy(caller, working) == caller

\* the caller's frame after compute_mau(df), which assigns df["month"]
MauCallerFrame(d) ==
    LET month == [e \in d |-> e.event_date \div MonthLen]
    IN  AssignedToCopy(d, WithColumn(d, "month", month))

\* every row of the collection
AllRows(d) == d

\* compute_revenue_trend: purchases = df[mask].copy() is a frame of its own
\* (a boolean mask selects into a new frame), with a row per purchase event
PurchaseRows(d) == OfType(d, "purchase")

\* Series.sum() of the revenue column
RECURSIVE SumRevenue(_)
SumRevenue(rows) ==
    IF rows = {} THEN 0
    ELSE LET e == CHOOSE x \in rows : TRUE
         IN  e.revenue + SumRevenue(rows \ {e})

\* daily and monthly: a row per date and per month among the purchase
\* rows, in the order of the keys
compute_revenue_trend(d) ==
    LET purchases == PurchaseRows(d)
        days      == Ascending({e.event_date : e \in purchases})
        months    == Ascending({e.event_date \div MonthLen : e \in purchases})
    IN  [daily   |-> [i \in 1..Len(days) |->
                        [event_date    |-> days[i],
                         daily_revenue |->
                             SumRevenue({e \in purchases : e.event_date = days[i]})]],
         monthly |-> [i \in 1..Len(months) |->
                        [month           |-> months[i],
                         monthly_revenue |->
                             SumRevenue({e \in purchases :
                                 e.event_date \div MonthLen = months[i]})]]]

\* x / y of two Python numbers (nunique() and len() are Python ints):
\* a zero divisor raises
PyTrueDiv(fn, x, y, scale) ==
    IF y = 0 THEN Raised(fn, "ZeroDivisionError")
    ELSE Returned(fn, Fin(x * scale, y))

\* x / y with a NumPy scalar on the left (Series.sum() is one): nan or inf
NpTrueDiv(fn, x, y, scale) ==
    Returned(fn, NpScale(NpDiv(Num(x), Num(y)), scale))

\* a denominator that counts the users with a purchase only
PayingUsers(d) == NUnique(OfType(d, "purchase"))

\* total_users = df["user_id"].nunique()
TotalUsers(d) == NUnique(d)

compute_conversion_rate(d) ==
    LET total_users == TotalUsers(d)
        converted   == NUnique(OfType(d, "purchase"))
    IN  PyTrueDiv("compute_conversion_rate", converted, total_users, 100)

UserDates(d, u) == {e.event_date : e \in {x \in d : x.user_id = u}}

\* gap between a user's first and last event of the collection
compute_retention_rate(d, days) ==
    LET gap(u)   == SetMax(UserDates(d, u)) - SetMin(UserDates(d, u))
        retained == Cardinality({u \in Users(d) : gap(u) >= days})
    IN  NpTrueDiv("compute_retention_rate", retained, NUnique(d), 100)

\* a reference date that does not come from the collection: the end of the
\* data window
WindowEndDate(d) == END_DATE

\* max_date = df["event_date"].max()
ChurnReferenceDate(d) == SetMax(EventDates(d))

compute_churn_rate(d, inactive_days) ==
    LET churned ==
          IF d = {} THEN 0
          ELSE Cardinality({u \in Users(d) :
                 ChurnReferenceDate(d) - SetMax(UserDates(d, u)) >= inactive_days})
    IN  NpTrueDiv("compute_churn_rate", churned, NUnique(d), 100)

compute_arpu(d) ==
    NpTrueDiv("compute_arpu", SumRevenue(OfType(d, "purchase")), TotalUsers(d), 1)

\* days=30 and inactive_days=60, the defaults get_kpi_summary calls with
DefaultRetentionDays == 30
DefaultInactiveDays == 60

\* a retention entry with another horizon than the function's default
SummaryRetentionOneDay(d) == compute_retention_rate(d, 1)

\* "Retention Rate": compute_retention_rate(df)
SummaryRetention(d) == compute_retention_rate(d, DefaultRetentionDays)

\* the dict literal is evaluated entry by entry: the first call that raises
\* ends it
get_kpi_summary(d) ==
    LET conv == compute_conversion_rate(d)
    IN  IF conv.raised # "" THEN Raised("get_kpi_summary", conv.raised)
        ELSE Returned("get_kpi_summary",
               [total_users     |-> NUnique(d),
                total_revenue   |-> Num(SumRevenue(OfType(d, "purchase"))),
                conversion_rate |-> conv.value,
                retention_rate  |-> SummaryRetention(d).value,
                churn_rate      |->
                    compute_churn_rate(d, DefaultInactiveDays).value,
                arpu            |-> compute_arpu(d).value,
                total_events    |-> Cardinality(d)])

---------------------------------------------------------------------------
(* Funnel analysis (analytics.py) *)

\* a strict funnel: the users who have an event of every step up to step i
StepCountSequential(d, i) ==
    Cardinality({u \in Users(d) :
        \A j \in 1..i : \E e \in d : e.user_id = u /\ e.event_type = FUNNEL_STEPS[j]})

\* df[df["event_type"] == step]["user_id"].nunique()
StepCount(d, i) == NUnique(OfType(d, FUNNEL_STEPS[i]))

\* funnel_df before its first row is overwritten: users.shift(1) is nan in
\* the first row
FunnelColumns(d) ==
    [i \in 1..Len(FUNNEL_STEPS) |->
        LET users   == Num(StepCount(d, i))
            shifted == IF i = 1 THEN NaN ELSE Num(StepCount(d, i - 1))
            prev    == Round1(NpScale(NpDiv(users, shifted), 100))
        IN  [step                 |-> FUNNEL_STEPS[i],
             users                |-> StepCount(d, i),
             conversion_from_prev |-> prev,
             conversion_from_top  |->
                 Round1(NpScale(NpDiv(users, Num(StepCount(d, 1))), 100)),
             dropoff_pct          |-> Round1(NpRSub(100, prev))]]

FunnelEntryRowKept(t) == t

\* funnel_df.loc[0, ...] = 100.0 and 0.0
FunnelEntryRow(t) ==
    [t EXCEPT ![1].conversion_from_prev = Num(100),
              ![1].dropoff_pct = Num(0)]

compute_funnel(d) == FunnelEntryRow(FunnelColumns(d))

\* x <= y for two values that are not nan
FloatLeq(x, y) ==
    CASE x.t = "-inf" \/ y.t = "inf" -> TRUE
      [] IsFin(x) /\ IsFin(y)        -> FinLeq(x, y)
      [] OTHER                       -> FALSE

\* the rows that hold the largest value of a column, nan skipped
MaxRows(col, rows) ==
    {i \in rows : /\ ~IsNaN(col[i])
                  /\ \A j \in rows : IsNaN(col[j]) \/ FloatLeq(col[j], col[i])}

\* the last row that holds the largest value
IdxMaxLast(col, rows) ==
    IF MaxRows(col, rows) = {} THEN 0 ELSE SetMax(MaxRows(col, rows))

\* Series.idxmax(): the first row that holds the largest value, nan
\* skipped; no row (0 here) when the column holds nothing but nan
IdxMax(col, rows) ==
    IF MaxRows(col, rows) = {} THEN 0 ELSE SetMin(MaxRows(col, rows))

\* dashboard.py, the funnel tab: the step after the entry row with the
\* highest drop-off.  Row labels count from 0, the model's rows from 1.
\* Without a row to report, funnel_df.loc[bottleneck, "step"] has no such
\* label.
Bottleneck(funnel_df) ==
    LET b == IdxMax([i \in DOMAIN funnel_df |-> funnel_df[i].dropoff_pct],
                    2..Len(funnel_df))
    IN  IF b = 0 THEN Raised("bottleneck", "KeyError")
        ELSE Returned("bottleneck",
               [funnel_df  |-> funnel_df,
                bottleneck |-> b - 1,
                bn_step    |-> funnel_df[b].step,
                bn_drop    |-> funnel_df[b].dropoff_pct])

---------------------------------------------------------------------------
(* Cohort analysis (analytics.py) *)

\* dt.to_period("M") of a day number
MonthOf(day) == day \div MonthLen

\* cohort_sizes: per signup month, the users with a signup event
CohortMonths(d) == {MonthOf(e.signup_date) : e \in OfType(d, "signup")}

CohortSize(d, m) ==
    NUnique({e \in OfType(d, "signup") : MonthOf(e.signup_date) = m})

\* user_activity with its period column
UserActivity(d) ==
    {[user_id      |-> e.user_id,
      signup_month |-> MonthOf(e.signup_date),
      period       |-> MonthOf(e.event_date) - MonthOf(e.signup_date)] : e \in d}

\* cohort_data: active users per cohort and period, periods >= 0 only
ActiveUsers(d, m, p) ==
    Cardinality({a.user_id : a \in {x \in UserActivity(d) :
                                      x.signup_month = m /\ x.period = p}})

ActiveCells(d) ==
    {<<a.signup_month, a.period>> : a \in {x \in UserActivity(d) : x.period >= 0}}

\* merge(..., on="signup_month"): an inner join, a cohort without a size
\* loses its rows
MergeCohortSizes(d, cells) == {c \in cells : c[1] \in CohortMonths(d)}

\* the caller's frame after compute_cohort_retention(df), which assigns
\* df["signup_month"] and df["event_month"]
CohortCallerFrame(d) ==
    LET signup_month == [e \in d |-> e.signup_date \div MonthLen]
        with_signup  == WithColumn(d, "signup_month", signup_month)
        event_month  == [e \in with_signup |-> e.event_date \div MonthLen]
    IN  AssignedToCopy(d, WithColumn(with_signup, "event_month", event_month))

\* the pivoted matrix: a cell for the (cohort, period) pairs that are left,
\* nothing for the others
compute_cohort_retention(d) ==
    [c \in MergeCohortSizes(d, ActiveCells(d)) |->
        Round1(NpScale(NpDiv(Num(ActiveUsers(d, c[1], c[2])),
                             Num(CohortSize(d, c[1]))), 100))]

---------------------------------------------------------------------------
(* A/B testing (analytics.py) *)

\* x - y of two floats
NpSub(x, y) ==
    CASE IsNaN(x) \/ IsNaN(y)   -> NaN
      [] IsFin(x) /\ IsFin(y)   -> Fin(x.n * y.d - y.n * x.d, x.d * y.d)
      [] IsFin(x)               -> Signed(-Sign(y))
      [] IsFin(y)               -> x
      [] OTHER                  -> IF x = y THEN NaN ELSE x

\* ab: one row per (user_id, experiment_group) with its converted flag
AbRows(d) ==
    {[user_id          |-> e.user_id,
      experiment_group |-> e.experiment_group,
      converted        |->
          IF \E x \in d : /\ x.user_id = e.user_id
                          /\ x.experiment_group = e.experiment_group
                          /\ x.event_type = "purchase"
          THEN 1 ELSE 0] : e \in d}

AbGroup(d, g) == {r \in AbRows(d) : r.experiment_group = g}
AbConversions(d, g) == Cardinality({r \in AbGroup(d, g) : r.converted = 1})

\* scipy.stats.chi2_contingency refuses a table with a zero expected
\* frequency, which is a table with an empty row or an empty column
Chi2Refuses(conv_a, n_a, conv_b, n_b) ==
    \/ n_a = 0
    \/ n_b = 0
    \/ conv_a + conv_b = 0
    \/ (n_a - conv_a) + (n_b - conv_b) = 0

\* The outcomes of compute_ab_test.  The rates are NumPy divisions and raise
\* nothing; on a collection without rows the sums are taken over an empty
\* column whose type pandas decides, and the first division may raise.
AbOutcomes(d) ==
    LET conv_a == AbConversions(d, "A")
        conv_b == AbConversions(d, "B")
        n_a    == Cardinality(AbGroup(d, "A"))
        n_b    == Cardinality(AbGroup(d, "B"))
        rate_a == NpDiv(Num(conv_a), Num(n_a))
        rate_b == NpDiv(Num(conv_b), Num(n_b))
        lift   == NpScale(NpDiv(NpSub(rate_b, rate_a), rate_a), 100)
    IN  IF d = {}
        THEN {Raised("compute_ab_test", "ZeroDivisionError"),
              Raised("compute_ab_test", "ValueError")}
        ELSE IF Chi2Refuses(conv_a, n_a, conv_b, n_b)
        THEN {Raised("compute_ab_test", "ValueError")}
        ELSE {Returned("compute_ab_test",
                [group_a_users       |-> n_a,
                 group_b_users       |-> n_b,
                 group_a_conversions |-> conv_a,
                 group_b_conversions |-> conv_b,
                 rate_a              |-> NpScale(rate_a, 100),
                 rate_b              |-> NpScale(rate_b, 100),
                 lift_pct            |-> lift])}

---------------------------------------------------------------------------
(* User segmentation: RFM and KMeans (analytics.py) *)

\* the label list of compute_rfm_segments and its default n_clusters
SEGMENT_LABELS == <<"Champions", "Loyal", "At-Risk", "Low-Value">>
DefaultNClusters == 4

\* what Series.map leaves for a segment that seg_labels has no entry for
MissingLabel == "NaN"

\* A column or a frame is computed when its statement runs, once: the
\* function as a table of its values.
Frame(f) == f @@ << >>

\* rfm: one row per user of the collection
RfmRows(d) ==
    LET max_date == SetMax(EventDates(d))
    IN  Frame([u \in Users(d) |->
                 LET rows == {e \in d : e.user_id = u}
                 IN  [recency   |-> max_date - SetMax(UserDates(d, u)),
                      frequency |-> Cardinality(rows),
                      monetary  |-> SumRevenue(rows)]])

\* The distinct rows of rfm in the order of their first user.  StandardScaler
\* shifts and scales each column, so two scaled rows are equal exactly when
\* the rows are.
FirstUser(rfm, p) == SetMin({u \in DOMAIN rfm : rfm[u] = p})

RECURSIVE PointSeq(_, _)
PointSeq(rfm, P) ==
    IF P = {} THEN << >>
    ELSE LET p == CHOOSE x \in P :
                    \A y \in P : FirstUser(rfm, x) <= FirstUser(rfm, y)
         IN  <<p>> \o PointSeq(rfm, P \ {p})

PointIndex(points, p) == CHOOSE i \in 1..Len(points) : points[i] = p

\* The groupings of n points into exactly m groups, as a sequence: a grouping
\* numbers the groups 0, 1, ... in the order of their first point.
\* Partitions(prefix, used, left, m) lists the ways to go on from `prefix`,
\* which uses the groups 0..used-1, over `left` more points.
RECURSIVE Partitions(_, _, _, _)
Partitions(prefix, used, left, m) ==
    IF left = 0 THEN (IF used = m THEN <<prefix>> ELSE << >>)
    ELSE IF used + left < m THEN << >>
    ELSE LET top == IF used < m THEN used ELSE m - 1
             RECURSIVE From(_)
             From(b) ==
                 IF b > top THEN << >>
                 ELSE Partitions(Append(prefix, b),
                                 IF b = used THEN used + 1 ELSE used,
                                 left - 1, m) \o From(b + 1)
         IN  From(0)

\* m different cluster ids out of the sequence `free`, the choice read off
\* the number q digit by digit
RECURSIVE Numbering(_, _, _)
Numbering(q, free, m) ==
    IF m = 0 THEN << >>
    ELSE LET n == Len(free)
             i == (q % n) + 1
             rest == [j \in 1..(n - 1) |-> IF j < i THEN free[j] ELSE free[j + 1]]
         IN  <<free[i]>> \o Numbering(q \div n, rest, m - 1)

\* km.fit_predict(rfm_scaled).  scikit-learn's KMeans is a library; what the
\* model keeps of it:
\*   - the labels are a function of the points, n_clusters and the state of
\*     the generator the fit draws from, and of nothing else;
\*   - equal points get the same cluster;
\*   - with at least n_clusters different points every cluster 0..n_clusters-1
\*     has a point; with fewer, as many clusters as there are different
\*     points ("Number of distinct clusters found smaller than n_clusters");
\*   - which points go together and which id a cluster gets depends on the
\*     generator: any grouping and any numbering can come out.
KMeansFitPredict(points, n_clusters, random_state) ==
    LET n     == Len(points)
        m     == IF n_clusters < n THEN n_clusters ELSE n
        parts == Partitions(<< >>, 0, n, m)
        group == parts[(random_state % Len(parts)) + 1]
        ids   == Numbering(random_state \div Len(parts),
                           [i \in 1..n_clusters |-> i - 1], m)
    IN  Frame([i \in 1..n |-> ids[group[i] + 1]])

RANDOM_STATE == 42

\* KMeans(random_state=None) would draw from np.random and move it on
KMeansGlobalGenerator(global) == [seed |-> global, draws |-> 1]

\* KMeans(..., random_state=42): every fit seeds a generator of its own with
\* 42 and leaves np.random alone
KMeansGenerator(global) == [seed |-> RANDOM_STATE, draws |-> 0]

RECURSIVE SumMonetary(_, _)
SumMonetary(rfm, us) ==
    IF us = {} THEN 0
    ELSE LET u == CHOOSE x \in us : TRUE
         IN  rfm[u].monetary + SumMonetary(rfm, us \ {u})

\* rfm.groupby("segment")["monetary"].mean(): a row per segment that occurs
Segments(segment) == {segment[u] : u \in DOMAIN segment}
SegmentUsers(segment, c) == {u \in DOMAIN segment : segment[u] = c}
SegmentMean(rfm, segment, c) ==
    Fin(SumMonetary(rfm, SegmentUsers(segment, c)),
        Cardinality(SegmentUsers(segment, c)))

\* a rank that ignores the means: the segments in the order of their ids
RankBySegmentId(rfm, segment, c) ==
    1 + Cardinality({c2 \in Segments(segment) : c2 < c})

\* .sort_values(ascending=False).index: the position of segment c, the
\* highest mean first; equal means keep the order of the ids
RankByMonetary(rfm, segment, c) ==
    1 + Cardinality({c2 \in Segments(segment) :
            LET a == SegmentMean(rfm, segment, c)
                b == SegmentMean(rfm, segment, c2)
            IN  \/ ~FinLeq(b, a)
                \/ (a = b /\ c2 < c)})

\* seg_labels: zip stops at the shorter of the ranked segments and
\* ["Champions", "Loyal", "At-Risk", "Low-Value"][:n_clusters]
SegLabels(rfm, segment, n_clusters) ==
    LET labels == SubSeq(SEGMENT_LABELS, 1,
                         IF n_clusters < Len(SEGMENT_LABELS)
                         THEN n_clusters ELSE Len(SEGMENT_LABELS))
    IN  Frame([c \in {x \in Segments(segment) :
                        RankByMonetary(rfm, segment, x) <= Len(labels)} |->
                  labels[RankByMonetary(rfm, segment, c)]])

\* n_clusters >= 1.  StandardScaler refuses an array without rows and KMeans
\* refuses n_samples < n_clusters, both with a ValueError.
compute_rfm_segments(d, n_clusters, random_state) ==
    LET fn     == "compute_rfm_segments"
        rfm    == RfmRows(d)
        points == PointSeq(rfm, {rfm[u] : u \in DOMAIN rfm})
    IN  IF d = {} \/ NUnique(d) < n_clusters
        THEN Raised(fn, "ValueError")
        ELSE LET cluster    == KMeansFitPredict(points, n_clusters, random_state)
                 segment    == Frame([u \in Users(d) |->
                                   cluster[PointIndex(points, rfm[u])]])
                 seg_labels == SegLabels(rfm, segment, n_clusters)
             IN  Returned(fn,
                   [u \in Users(d) |->
                      [recency       |-> rfm[u].recency,
                       frequency     |-> rfm[u].frequency,
                       monetary      |-> rfm[u].monetary,
                       segment       |-> segment[u],
                       segment_label |->
                           IF segment[u] \in DOMAIN seg_labels
                           THEN seg_labels[segment[u]]
                           ELSE MissingLabel]])

---------------------------------------------------------------------------
(* The cached wrappers of dashboard.py *)

\* @st.cache_data on get_rfm(_df) and get_cohort(_df): a store entry is
\* looked up by the function and the hash of its arguments, and Streamlit
\* leaves an argument whose name starts with an underscore out of the hash.
\* Both functions have _df as their only argument: one entry per function,
\* << >> while nothing is stored.
CachedFunctions == {"get_cohort", "get_rfm"}
EmptyCache == [f \in CachedFunctions |-> << >>]

\* A call of cached function f, where `computed` is what the wrapped
\* function gives for the frame of this call: a stored value is returned as
\* it is, whatever frame it was computed from, and the function does not
\* run; else the function runs and what it returns is stored (an exception
\* is stored nowhere).
CachedCall(cache, f, computed) ==
    LET hit == cache[f] # << >>
    IN  [hit   |-> hit,
         out   |-> IF hit THEN Returned(f, cache[f][1])
                   ELSE IF computed.raised # "" THEN Raised(f, computed.raised)
                   ELSE Returned(f, computed.value),
         cache |-> IF hit \/ computed.raised # "" THEN cache
                   ELSE [cache EXCEPT ![f] = <<computed.value>>]]

\* The script runs top to bottom and an exception ends the run.  It gets to
\* the cohort tab when the KPI cards and the funnel tab have not raised,
\* and to the segments tab when the A/B tab has not raised either.
ReachesCohortTab(d) ==
    /\ get_kpi_summary(d).raised = ""
    /\ Bottleneck(compute_funnel(d)).raised = ""

ReachesSegmentsTab(d) ==
    /\ ReachesCohortTab(d)
    /\ \E ab \in AbOutcomes(d) : ab.raised = ""

---------------------------------------------------------------------------
(* Actions *)

\* A script run of the dashboard with the widgets at the given values:
\* df is filtered anew and everything computed before is gone.
Rerun ==
    /\ raw_df # {}
    /\ \E date_range \in DateInputs(raw_df),
          channels_sel \in SUBSET ChannelsAvailable(raw_df),
          devices_sel \in SUBSET DevicesAvailable(raw_df) :
            df' = ApplyFilters(raw_df, date_range, channels_sel, devices_sel)
    /\ result' = NoResult
    /\ rfm_repeat' = FALSE
    /\ UNCHANGED <<raw_df, np_random, st_cache>>

CallFunnel ==
    /\ result' = Returned("compute_funnel", compute_funnel(df))
    /\ rfm_repeat' = FALSE
    /\ UNCHANGED <<raw_df, df, np_random, st_cache>>

\* The funnel tab up to the bottleneck card.  The script gets there when
\* get_kpi_summary(df), which runs first, has not raised.
ReportBottleneck ==
    /\ get_kpi_summary(df).raised = ""
    /\ Len(compute_funnel(df)) > 1
    /\ result' = Bottleneck(compute_funnel(df))
    /\ rfm_repeat' = FALSE
    /\ UNCHANGED <<raw_df, df, np_random, st_cache>>

CallCohort ==
    /\ result' = Returned("compute_cohort_retention", compute_cohort_retention(df))
    /\ df' = CohortCallerFrame(df)
    /\ rfm_repeat' = FALSE
    /\ UNCHANGED <<raw_df, np_random, st_cache>>

\* horizons the retention and churn functions are called with
HorizonDays == {1, 2, DefaultRetentionDays, DefaultInactiveDays}

CallDau ==
    /\ result' = Returned("compute_dau", compute_dau(df))
    /\ rfm_repeat' = FALSE
    /\ UNCHANGED <<raw_df, df, np_random, st_cache>>

CallMau ==
    /\ result' = Returned("compute_mau", compute_mau(df))
    /\ df' = MauCallerFrame(df)
    /\ rfm_repeat' = FALSE
    /\ UNCHANGED <<raw_df, np_random, st_cache>>

CallRevenueTrend ==
    /\ result' = Returned("compute_revenue_trend", compute_revenue_trend(df))
    /\ rfm_repeat' = FALSE
    /\ UNCHANGED <<raw_df, df, np_random, st_cache>>

CallConversionRate ==
    /\ result' = compute_conversion_rate(df)
    /\ rfm_repeat' = FALSE
    /\ UNCHANGED <<raw_df, df, np_random, st_cache>>

CallRetentionRate ==
    /\ \E days \in HorizonDays :
          result' = WithArgs(compute_retention_rate(df, days), <<days>>)
    /\ rfm_repeat' = FALSE
    /\ UNCHANGED <<raw_df, df, np_random, st_cache>>

CallChurnRate ==
    /\ \E inactive_days \in HorizonDays :
          result' = WithArgs(compute_churn_rate(df, inactive_days),
                             <<inactive_days>>)
    /\ rfm_repeat' = FALSE
    /\ UNCHANGED <<raw_df, df, np_random, st_cache>>

CallArpu ==
    /\ result' = compute_arpu(df)
    /\ rfm_repeat' = FALSE
    /\ UNCHANGED <<raw_df, df, np_random, st_cache>>

CallKpiSummary ==
    /\ result' = get_kpi_summary(df)
    /\ rfm_repeat' = FALSE
    /\ UNCHANGED <<raw_df, df, np_random, st_cache>>

CallAbTest ==
    /\ result' \in AbOutcomes(df)
    /\ rfm_repeat' = FALSE
    /\ UNCHANGED <<raw_df, df, np_random, st_cache>>

\* numbers of clusters compute_rfm_segments is called with
MaxClusters == 5
ClusterCounts == 1..MaxClusters

CallRfm ==
    /\ \E n_clusters \in ClusterCounts :
          LET gen == KMeansGenerator(np_random)
          IN  /\ result' = WithArgs(compute_rfm_segments(df, n_clusters, gen.seed),
                                    <<n_clusters>>)
              /\ np_random' = (np_random + gen.draws) % RngStates
              /\ rfm_repeat' = (/\ result.fn = "compute_rfm_segments"
                                /\ result.args = <<n_clusters>>)
    /\ UNCHANGED <<raw_df, df, st_cache>>

\* tab3: cohort_matrix = get_cohort(df)
GetCohort ==
    /\ ReachesCohortTab(df)
    /\ LET call == CachedCall(st_cache, "get_cohort",
                              Returned("compute_cohort_retention",
                                       compute_cohort_retention(df)))
       IN  /\ result' = call.out
           /\ st_cache' = call.cache
           /\ df' = IF call.hit THEN df ELSE CohortCallerFrame(df)
    /\ rfm_repeat' = FALSE
    /\ UNCHANGED <<raw_df, np_random>>

\* tab5: rfm = get_rfm(df), compute_rfm_segments with its default n_clusters
GetRfm ==
    /\ ReachesSegmentsTab(df)
    /\ LET gen  == KMeansGenerator(np_random)
           call == CachedCall(st_cache, "get_rfm",
                              compute_rfm_segments(df, DefaultNClusters, gen.seed))
       IN  /\ result' = call.out
           /\ st_cache' = call.cache
           /\ np_random' = IF call.hit THEN np_random
                           ELSE (np_random + gen.draws) % RngStates
    /\ rfm_repeat' = FALSE
    /\ UNCHANGED <<raw_df, df>>

\* The "Regenerate Data" button: st.cache_data.clear() and st.rerun().  The
\* run that follows finds no stored get_data() and calls load_data() again,
\* which draws from np.random where the last generation left it.  The new
\* collection is shown under the widgets' defaults (the whole date range,
\* every channel and device); any other selection is a Rerun.  The button
\* is followed once per behaviour: while np.random is where the generation
\* at import left it.
RegenerateData(data) ==
    /\ np_random = GeneratorStateAfter(raw_df)
    /\ \E new_df \in data :
          /\ raw_df' = new_df
          /\ np_random' = (np_random + Cardinality(new_df)) % RngStates
          /\ df' = ApplyFilters(new_df, << >>, ChannelsAvailable(new_df),
                                DevicesAvailable(new_df))
    /\ st_cache' = EmptyCache
    /\ result' = NoResult
    /\ rfm_repeat' = FALSE

---------------------------------------------------------------------------
(* Funnel and cohort tables over the filtered collections *)

TableData ==
    Collections(NUsers,
                UserHistories(SignupDays, FirstGaps, StepGaps,
                              {"organic"}, {"desktop"}, {"A"}, {40}))

InitTables ==
    /\ raw_df \in TableData
    /\ df = raw_df
    /\ result = NoResult
    /\ rfm_repeat = FALSE
    /\ np_random = GeneratorStateAfter(raw_df)
    /\ st_cache = EmptyCache

NextTables == Rerun \/ CallFunnel \/ CallCohort \/ ReportBottleneck

SpecTables == InitTables /\ [][NextTables]_vars


---------------------------------------------------------------------------
(* The KPI functions over the filtered collections *)

\* users who sign up on the first day
KpiData ==
    Collections(NUsers,
                UserHistories({START_DATE}, FirstGaps, StepGaps,
                              {"organic"}, {"desktop"}, {"A"}, Revenues))

InitKpi ==
    /\ raw_df \in KpiData
    /\ df = raw_df
    /\ result = NoResult
    /\ rfm_repeat = FALSE
    /\ np_random = GeneratorStateAfter(raw_df)
    /\ st_cache = EmptyCache

NextKpi ==
    \/ Rerun
    \/ CallConversionRate
    \/ CallRetentionRate
    \/ CallChurnRate
    \/ CallArpu
    \/ CallKpiSummary

SpecKpi == InitKpi /\ [][NextKpi]_vars

---------------------------------------------------------------------------
(* The A/B test over the filtered collections *)

AbData ==
    Collections(NUsers,
                UserHistories(SignupDays, FirstGaps, StepGaps,
                              {"organic"}, {"desktop"}, GROUPS, {40}))

InitAb ==
    /\ raw_df \in AbData
    /\ df = raw_df
    /\ result = NoResult
    /\ rfm_repeat = FALSE
    /\ np_random = GeneratorStateAfter(raw_df)
    /\ st_cache = EmptyCache

NextAb == Rerun \/ CallAbTest

SpecAb == InitAb /\ [][NextAb]_vars

---------------------------------------------------------------------------
(* The segmentation over the filtered collections *)

\* users who sign up on the first day and take their funnel steps the day
\* after, up to any depth
NRfmUsers == 5
RfmRevenues == {40, 100, 250}

RfmData ==
    Collections(NRfmUsers,
                UserHistories({START_DATE}, {1}, {0},
                              {"organic"}, {"desktop"}, {"A"}, RfmRevenues))

InitRfm ==
    /\ raw_df \in RfmData
    /\ df = raw_df
    /\ result = NoResult
    /\ rfm_repeat = FALSE
    /\ np_random = GeneratorStateAfter(raw_df)
    /\ st_cache = EmptyCache

NextRfm == Rerun \/ CallRfm

SpecRfm == InitRfm /\ [][NextRfm]_vars

---------------------------------------------------------------------------
(* The analytics functions called with a collection that holds a record of
   an event type outside the schema (a caller other than the dashboard:
   the generator writes no such record) *)

EVENT_TYPES == {FUNNEL_STEPS[i] : i \in 1..Len(FUNNEL_STEPS)}
UnknownEventType == "refund"

\* a generated collection with one more row: a copy of one of its rows
\* under the unknown event type
SchemaData ==
    UNION {{d \cup {[e EXCEPT !.event_type = UnknownEventType]} : e \in d}
           : d \in Collections(NUsers,
                               UserHistories(SignupDays, FirstGaps, {0},
                                             {"organic"}, {"desktop"}, {"A"}, {40}))}

InitSchema ==
    /\ raw_df \in SchemaData
    /\ df = raw_df
    /\ result = NoResult
    /\ rfm_repeat = FALSE
    /\ np_random = GeneratorStateAfter(raw_df)
    /\ st_cache = EmptyCache

NextSchema ==
    \/ CallDau
    \/ CallMau
    \/ CallKpiSummary
    \/ CallChurnRate
    \/ CallRfm

SpecSchema == InitSchema /\ [][NextSchema]_vars

---------------------------------------------------------------------------
(* Every analytics function called, in any order, on one collection as
   load_data returns it *)

\* users who take their first funnel step the day after signup and the
\* others the same day
CallsData ==
    Collections(NUsers,
                UserHistories(SignupDays, {1}, {0},
                              {"organic"}, {"desktop"}, GROUPS, Revenues))

InitCalls ==
    /\ raw_df \in CallsData
    /\ df = raw_df
    /\ result = NoResult
    /\ rfm_repeat = FALSE
    /\ np_random = GeneratorStateAfter(raw_df)
    /\ st_cache = EmptyCache

NextCalls ==
    \/ CallDau
    \/ CallMau
    \/ CallRevenueTrend
    \/ CallConversionRate
    \/ CallRetentionRate
    \/ CallChurnRate
    \/ CallArpu
    \/ CallKpiSummary
    \/ CallFunnel
    \/ CallCohort
    \/ CallRfm
    \/ CallAbTest

SpecCalls == InitCalls /\ [][NextCalls]_vars

---------------------------------------------------------------------------
(* The dashboard script: reruns under the sidebar filters, the cached
   cohort matrix and segments, the regenerate button *)

\* users of both experiment groups who sign up on the first day and either
\* stop there or go through the whole funnel the day after
DashboardData ==
    Collections(NRfmUsers,
                {h \in UserHistories({START_DATE}, {1}, {0},
                                     {"organic"}, {"desktop"}, GROUPS, {40}) :
                    Cardinality(h) \in {1, Len(FUNNEL_STEPS)}})

InitDashboard ==
    /\ raw_df \in DashboardData
    /\ df = raw_df
    /\ result = NoResult
    /\ rfm_repeat = FALSE
    /\ np_random = GeneratorStateAfter(raw_df)
    /\ st_cache = EmptyCache

NextDashboard ==
    \/ Rerun
    \/ GetCohort
    \/ GetRfm
    \/ RegenerateData(DashboardData)

SpecDashboard == InitDashboard /\ [][NextDashboard]_vars

---------------------------------------------------------------------------
(* Claims *)

\* C1: in every funnel table compute_funnel returns, whatever the reach
\* counts (zero counts included), the signup row has conversion_from_prev
\* 100.0 and dropoff_pct 0.0.
FunnelEntryRowFixed ==
    result.fn = "compute_funnel" =>
        /\ result.value[1].step = "signup"
        /\ result.value[1].conversion_from_prev = Num(100)
        /\ result.value[1].dropoff_pct = Num(0)

\* a funnel table of a collection that is not empty and holds no signup
\* event, where the division behind the first row has nothing to divide by
FunnelEntryRowFixedWitness ==
    /\ result.fn = "compute_funnel"
    /\ df # {}
    /\ result.value[1].users = 0
    /\ result.value[1].conversion_from_prev = Num(100)
    /\ \E i \in 2..Len(FUNNEL_STEPS) : result.value[i].users > 0

\* C2: in every cohort matrix, each signup-month cohort with users (a
\* cohort that has a size) has exactly 100.0 in its M0 cell.
CohortM0Is100 ==
    result.fn = "compute_cohort_retention" =>
        \A m \in CohortMonths(df) :
            /\ <<m, 0>> \in DOMAIN result.value
            /\ result.value[<<m, 0>>] = Num(100)

\* C3: every percentage of a funnel table and every present cell of a
\* cohort matrix is a number between 0 and 100.
PercentagesInRange ==
    /\ result.fn = "compute_funnel" =>
          \A i \in 1..Len(FUNNEL_STEPS) :
              /\ InPercentRange(result.value[i].conversion_from_prev)
              /\ InPercentRange(result.value[i].conversion_from_top)
              /\ InPercentRange(result.value[i].dropoff_pct)
    /\ result.fn = "compute_cohort_retention" =>
          \A c \in DOMAIN result.value : InPercentRange(result.value[c])


\* the error kinds of the specification that Python has a counterpart of:
\* ZeroDivisionError is its DivisionByZeroError, nothing is its
\* EmptyInputError or its DegenerateClusteringError
IsEmptyInputError(err) == err = "EmptyInputError"
IsDivisionByZeroError(err) == err \in {"DivisionByZeroError", "ZeroDivisionError"}
IsDegenerateClusteringError(err) == err = "DegenerateClusteringError"

\* C4: compute_conversion_rate on a collection with zero users fails with
\* an EmptyInputError: it returns nothing and raises no other error.
ConversionRateEmptyInput ==
    (result.fn = "compute_conversion_rate" /\ NUnique(df) = 0) =>
        IsEmptyInputError(result.raised)

\* C6: compute_retention_rate, compute_churn_rate, compute_arpu and
\* get_kpi_summary on an empty collection each fail with an EmptyInputError
\* and return nothing.
KpiEmptyInput ==
    (/\ result.fn \in {"compute_retention_rate", "compute_churn_rate",
                       "compute_arpu", "get_kpi_summary"}
     /\ df = {}) =>
        IsEmptyInputError(result.raised)


\* C5: compute_ab_test on a collection whose group A has users and no
\* purchase fails with a DivisionByZeroError; it returns no result.
AbZeroRateRaises ==
    (/\ result.fn = "compute_ab_test"
     /\ AbGroup(df, "A") # {}
     /\ AbConversions(df, "A") = 0) =>
        IsDivisionByZeroError(result.raised)

\* what a returned rfm frame says about its segments
RfmSegments(v) == {v[u].segment : u \in DOMAIN v}
RfmSegmentMean(v, c) ==
    SegmentMean(v, [u \in DOMAIN v |-> v[u].segment], c)
RfmLabelsOf(v, c) == {v[u].segment_label : u \in {x \in DOMAIN v : v[x].segment = c}}
LabelRank(label) ==
    IF \E i \in 1..Len(SEGMENT_LABELS) : SEGMENT_LABELS[i] = label
    THEN CHOOSE i \in 1..Len(SEGMENT_LABELS) : SEGMENT_LABELS[i] = label
    ELSE Len(SEGMENT_LABELS) + 1
RfmReturned(k) ==
    /\ result.fn = "compute_rfm_segments"
    /\ result.args = <<k>>
    /\ result.raised = ""

\* C7: a compute_rfm_segments call that follows a call with the same
\* collection and the same n_clusters gives the result that call gave, the
\* same cluster id and label for every user (or the same error), whatever
\* was called before and wherever the process-wide generator stands.
RfmDeterministic ==
    [][rfm_repeat' => (result' = result)]_vars

\* a repeated call that returned a clustering with more than one segment
RfmDeterministicWitness ==
    /\ rfm_repeat
    /\ result.raised = ""
    /\ Cardinality(RfmSegments(result.value)) >= 2
    /\ Cardinality(DOMAIN result.value) > Cardinality(RfmSegments(result.value))

\* the parts of C8 that do not depend on how many segments come out: users
\* have the same label exactly when they have the same segment, and a
\* segment with a higher mean monetary has a label earlier in the list
RfmLabelsFollowRank(v) ==
    /\ \A u, w \in DOMAIN v :
          (v[u].segment = v[w].segment) <=> (v[u].segment_label = v[w].segment_label)
    /\ \A c1, c2 \in RfmSegments(v) :
          ~FinLeq(RfmSegmentMean(v, c1), RfmSegmentMean(v, c2)) =>
              \A l1 \in RfmLabelsOf(v, c1), l2 \in RfmLabelsOf(v, c2) :
                  LabelRank(l1) < LabelRank(l2)

RfmEveryRecordLabelled ==
    result.fn = "compute_rfm_segments" =>
        (NUnique(df) >= result.args[1] =>
            /\ result.raised = ""
            /\ DOMAIN result.value = Users(df)
            /\ \A u \in DOMAIN result.value :
                  /\ result.value[u].segment \in 0..(result.args[1] - 1)
                  /\ result.value[u].segment_label # MissingLabel)

\* C10: compute_rfm_segments on a collection with fewer users than
\* n_clusters fails with a DegenerateClusteringError and returns nothing.
RfmTooFewUsersRaises ==
    result.fn = "compute_rfm_segments" =>
        (NUnique(df) < result.args[1] =>
            IsDegenerateClusteringError(result.raised))

IsSchemaViolationError(err) == err = "SchemaViolationError"

\* C11: an analytics function called with a collection that holds a record
\* whose event_type is outside {signup, login, view_product, add_to_cart,
\* purchase} fails with a SchemaViolationError; it returns nothing, so the
\* record is counted nowhere.
UnknownEventTypeRefused ==
    (/\ result.fn # "none"
     /\ \E e \in df : e.event_type \notin EVENT_TYPES) =>
        IsSchemaViolationError(result.raised)

\* C12: when a signup-month cohort has active users and cohort size 0 (no
\* signup event of that month in the collection), compute_cohort_retention
\* fails with a DivisionByZeroError; it returns no matrix that lacks the
\* cohort's row.
CohortSizeZeroRaises ==
    (/\ result.fn = "compute_cohort_retention"
     /\ \E c \in ActiveCells(df) : CohortSize(df, c[1]) = 0) =>
        IsDivisionByZeroError(result.raised)

\* the users of a group and those of them with a purchase event
GroupUsers(d, g) == {e.user_id : e \in {x \in d : x.experiment_group = g}}
GroupConverters(d, g) ==
    {u \in GroupUsers(d, g) :
        \E e \in d : e.user_id = u /\ e.event_type = "purchase"}

\* C13: when both experiment groups have users and group A has a converter,
\* compute_ab_test returns a result in which a user counts as converted iff
\* the user has a purchase event, rate_a and rate_b are conversions / users
\* x 100 and lie in [0, 100], and lift_pct = (rate_b - rate_a) / rate_a x 100.
AbRatesAndLift ==
    (/\ result.fn = "compute_ab_test"
     /\ GroupUsers(df, "A") # {}
     /\ GroupUsers(df, "B") # {}
     /\ GroupConverters(df, "A") # {}) =>
        LET n_a == Cardinality(GroupUsers(df, "A"))
            n_b == Cardinality(GroupUsers(df, "B"))
            c_a == Cardinality(GroupConverters(df, "A"))
            c_b == Cardinality(GroupConverters(df, "B"))
        IN  /\ result.raised = ""
            /\ result.value.group_a_conversions = c_a
            /\ result.value.group_b_conversions = c_b
            /\ result.value.rate_a = Fin(100 * c_a, n_a)
            /\ result.value.rate_b = Fin(100 * c_b, n_b)
            /\ InPercentRange(result.value.rate_a)
            /\ InPercentRange(result.value.rate_b)
            /\ result.value.lift_pct = Fin(100 * (c_b * n_a - c_a * n_b), c_a * n_b)

\* C14: the funnel table has the five steps in the order signup, login,
\* view_product, add_to_cart, purchase, and the users count of a step is
\* the number of distinct users with at least one event of that type in the
\* collection, with or without events of the earlier steps.
FunnelReachCounts ==
    result.fn = "compute_funnel" =>
        /\ [i \in DOMAIN result.value |-> result.value[i].step] =
               <<"signup", "login", "view_product", "add_to_cart", "purchase">>
        /\ \A i \in DOMAIN result.value :
              result.value[i].users =
                  Cardinality({u \in Users(df) :
                      \E e \in df : /\ e.user_id = u
                                     /\ e.event_type = result.value[i].step})

\* a funnel in which a step counts a user who has no event of the step
\* before it
FunnelReachCountsWitness ==
    /\ result.fn = "compute_funnel"
    /\ \E i \in 2..Len(FUNNEL_STEPS) :
          /\ result.value[i].users > result.value[i - 1].users
          /\ result.value[i - 1].users > 0

\* v is n / d x 100 rounded to one decimal: a number of tenths that is no
\* further than half a tenth from the exact value
IsPercentRounded1(v, n, d) ==
    /\ IsFin(v)
    /\ 10 % v.d = 0
    /\ 20 * Abs(v.n * d - 100 * n * v.d) <= v.d * d

\* C15: for every step after signup whose previous step has a reach above
\* zero, conversion_from_prev is reach / previous reach x 100 rounded to one
\* decimal, conversion_from_top is reach / reach of signup x 100 rounded to
\* one decimal, and dropoff_pct is 100 - conversion_from_prev.
FunnelConversions ==
    result.fn = "compute_funnel" =>
        \A i \in 2..Len(FUNNEL_STEPS) :
            result.value[i - 1].users > 0 =>
                /\ IsPercentRounded1(result.value[i].conversion_from_prev,
                                     result.value[i].users, result.value[i - 1].users)
                /\ IsPercentRounded1(result.value[i].conversion_from_top,
                                     result.value[i].users, result.value[1].users)
                /\ result.value[i].dropoff_pct =
                       NpRSub(100, result.value[i].conversion_from_prev)

\* C16: the bottleneck the dashboard reports is a step after the entry step
\* whose dropoff_pct is the maximum over those steps (every other drop-off
\* that is a number is no larger), and of the steps that share the maximum
\* it is the one with the smallest index.
BottleneckIsFirstMaxDropoff ==
    (result.fn = "bottleneck" /\ result.raised = "") =>
        LET t == result.value.funnel_df
            b == result.value.bottleneck + 1
        IN  /\ b \in 2..Len(t)
            /\ result.value.bn_step = t[b].step
            /\ result.value.bn_drop = t[b].dropoff_pct
            /\ ~IsNaN(t[b].dropoff_pct)
            /\ \A j \in 2..Len(t) :
                  \/ IsNaN(t[j].dropoff_pct)
                  \/ /\ FloatLeq(t[j].dropoff_pct, t[b].dropoff_pct)
                     /\ (j < b => t[j].dropoff_pct # t[b].dropoff_pct)

\* a report for a funnel in which two steps share the maximum drop-off and
\* the entry row's drop-off is no smaller than theirs
BottleneckIsFirstMaxDropoffWitness ==
    /\ result.fn = "bottleneck"
    /\ result.raised = ""
    /\ LET t == result.value.funnel_df
           b == result.value.bottleneck + 1
       IN  /\ \E j \in (b + 1)..Len(t) : t[j].dropoff_pct = t[b].dropoff_pct
           /\ FloatLeq(t[b].dropoff_pct, t[1].dropoff_pct)

\* the signup_date the rows of user u carry
SignupDateOf(d, u) == CHOOSE s \in {e.signup_date : e \in {x \in d : x.user_id = u}} : TRUE

\* C17: compute_retention_rate(events, days) on a collection with users
\* returns (users whose latest event_date minus signup_date is >= days) /
\* (users) x 100; a user with only a signup event has gap 0.
RetentionFromSignupDate ==
    (result.fn = "compute_retention_rate" /\ df # {}) =>
        LET days     == result.args[1]
            gap(u)   == SetMax(UserDates(df, u)) - SignupDateOf(df, u)
            retained == {u \in Users(df) : gap(u) >= days}
        IN  /\ result.raised = ""
            /\ result.value = Fin(100 * Cardinality(retained), NUnique(df))

\* every user has only a signup event, all on one day
OnlySignupsOnOneDay(d) ==
    /\ d # {}
    /\ \A e \in d : e.event_type = "signup"
    /\ Cardinality(EventDates(d)) = 1
    /\ Cardinality(d) = NUnique(d)

\* C18: compute_churn_rate(events, inactive_days) on a collection with
\* users returns (users whose latest event_date lies inactive_days or more
\* before the latest event_date of the collection) / (users) x 100; when
\* every user has only a signup event on one and the same day, the
\* conversion rate, the 30-day retention rate and the 60-day churn rate
\* are 0.
ChurnFromCollectionMax ==
    /\ (result.fn = "compute_churn_rate" /\ df # {}) =>
          LET reference == SetMax({e.event_date : e \in df})
              latest(u) == SetMax({e.event_date : e \in {x \in df : x.user_id = u}})
              churned   == {u \in Users(df) : reference - latest(u) >= result.args[1]}
          IN  /\ result.raised = ""
              /\ result.value = Fin(100 * Cardinality(churned), NUnique(df))
    /\ OnlySignupsOnOneDay(df) =>
          /\ result.fn = "compute_conversion_rate" => result.value = Num(0)
          /\ (result.fn = "compute_retention_rate"
                /\ result.args = <<DefaultRetentionDays>>) => result.value = Num(0)
          /\ (result.fn = "compute_churn_rate"
                /\ result.args = <<DefaultInactiveDays>>) => result.value = Num(0)

\* a churn rate of a collection that ends before the data window does, with
\* a churned user and a user who is not
ChurnFromCollectionMaxWitness ==
    /\ result.fn = "compute_churn_rate"
    /\ result.raised = ""
    /\ df # {}
    /\ SetMax(EventDates(df)) < END_DATE
    /\ result.value = Num(50)

\* the users of a collection with at least one purchase event
Purchasers(d) == {e.user_id : e \in {x \in d : x.event_type = "purchase"}}

\* C19: on a collection that is not empty, compute_arpu returns (sum of
\* revenue over purchase events) / (distinct users) and
\* compute_conversion_rate returns (distinct users with a purchase) /
\* (distinct users) x 100, the denominator counting every user of the
\* collection.
ArpuAndConversionOverAllUsers ==
    df # {} =>
        /\ result.fn = "compute_arpu" =>
              /\ result.raised = ""
              /\ result.value =
                     Fin(SumRevenue({e \in df : e.event_type = "purchase"}),
                         Cardinality({e.user_id : e \in df}))
        /\ result.fn = "compute_conversion_rate" =>
              /\ result.raised = ""
              /\ result.value =
                     Fin(100 * Cardinality(Purchasers(df)),
                         Cardinality({e.user_id : e \in df}))

\* two users, one purchase of revenue 100: arpu 50.0
ArpuAndConversionOverAllUsersWitness ==
    /\ result.fn = "compute_arpu"
    /\ Cardinality({e.user_id : e \in df}) = 2
    /\ Cardinality(Purchasers(df)) = 1
    /\ \E e \in df : e.event_type = "purchase" /\ e.revenue = 100
    /\ result.value = Num(50)

InputNotMutated ==
    [][df' = df]_vars

\* after a call of a function that adds columns to its working frame, here
\* the cohort matrix of a collection that spans two months, the collection
\* is still what load_data returned
InputNotMutatedWitness ==
    /\ result.fn = "compute_cohort_retention"
    /\ \E c \in DOMAIN result.value : c[2] = 1
    /\ df = raw_df
    /\ \A e \in df : DOMAIN e = DOMAIN Event(0, 0, "signup", 0, "", "", "", 0)

\* the users with signup month m who have an event p months after m, and
\* the users with a signup event in month m
CohortActive(d, m, p) ==
    {e.user_id : e \in {x \in d : /\ x.signup_date \div MonthLen = m
                                   /\ x.event_date \div MonthLen = m + p}}
CohortSigned(d, m) ==
    {e.user_id : e \in {x \in d : /\ x.event_type = "signup"
                                   /\ x.signup_date \div MonthLen = m}}

\* C22: the cohort matrix has the cell (cohort m, period p) iff p >= 0 and
\* a user with signup month m has an event p months after m; the cell is
\* then (distinct such users) / (distinct users with a signup event in
\* month m) x 100 rounded to one decimal.  A pair without an active user
\* has no cell, not a cell of 0.
CohortCellsIffActive ==
    result.fn = "compute_cohort_retention" =>
        LET months == {e.signup_date \div MonthLen : e \in df}
                        \cup {e.event_date \div MonthLen : e \in df}
            cells  == {c \in months \X {q - m : q, m \in months} :
                          c[2] >= 0 /\ CohortActive(df, c[1], c[2]) # {}}
        IN  /\ result.raised = ""
            /\ DOMAIN result.value = cells
            /\ \A c \in cells :
                  IsPercentRounded1(result.value[c],
                                    Cardinality(CohortActive(df, c[1], c[2])),
                                    Cardinality(CohortSigned(df, c[1])))

\* C23: compute_dau returns one entry per date on which the collection has
\* an event, the dates ascending, each with the number of distinct users
\* who have an event on that date; compute_mau returns the same per
\* calendar month.  A user with several events in a bucket counts once and
\* a date or month without an event has no entry.
DauMauPerBucket ==
    /\ result.fn = "compute_dau" =>
          LET v == result.value
          IN  /\ {v[i].event_date : i \in DOMAIN v} = {e.event_date : e \in df}
              /\ \A i, j \in DOMAIN v : i < j => v[i].event_date < v[j].event_date
              /\ \A i \in DOMAIN v :
                    v[i].DAU = Cardinality({e.user_id : e \in
                                   {x \in df : x.event_date = v[i].event_date}})
    /\ result.fn = "compute_mau" =>
          LET v == result.value
          IN  /\ {v[i].month : i \in DOMAIN v} = {e.event_date \div MonthLen : e \in df}
              /\ \A i, j \in DOMAIN v : i < j => v[i].month < v[j].month
              /\ \A i \in DOMAIN v :
                    v[i].MAU = Cardinality({e.user_id : e \in
                                   {x \in df : x.event_date \div MonthLen = v[i].month}})

\* a daily series with a date on which a user has several events and with
\* no entry for a date of the data window
DauMauPerBucketWitness ==
    /\ result.fn = "compute_dau"
    /\ Len(result.value) >= 2
    /\ \E day \in START_DATE..END_DATE :
          \A i \in DOMAIN result.value : result.value[i].event_date # day
    /\ \E i \in DOMAIN result.value :
          result.value[i].DAU <
              Cardinality({e \in df : e.event_date = result.value[i].event_date})

\* the total of a series given as a sequence of its values
RECURSIVE SeriesTotal(_)
SeriesTotal(values) ==
    IF values = << >> THEN 0 ELSE Head(values) + SeriesTotal(Tail(values))

CachedResultsOfCurrentFilter ==
    /\ (result.fn = "get_cohort" /\ result.raised = "") =>
          result.value = compute_cohort_retention(df)
    /\ (result.fn = "get_rfm" /\ result.raised = "") =>
          result.value =
              compute_rfm_segments(df, DefaultNClusters, RANDOM_STATE).value

\* C26: for every filter selection, the collection df the dashboard hands
\* to the analytics functions keeps the schema invariants: every user_id
\* in it has a signup event in it, and the signup_date of each row is the
\* minimum event_date of that user within df.
FilteredCollectionKeepsSchema ==
    \A u \in {e.user_id : e \in df} :
        LET rows == {e \in df : e.user_id = u}
        IN  /\ \E e \in rows : e.event_type = "signup"
            /\ \A e \in rows :
                  /\ e.signup_date \in {x.event_date : x \in rows}
                  /\ \A x \in rows : e.signup_date <= x.event_date

\* the position of an event type in signup, login, view_product,
\* add_to_cart, purchase
StepIndex(type) == CHOOSE i \in 1..Len(FUNNEL_STEPS) : FUNNEL_STEPS[i] = type

\* C27: in every collection load_data produces, every user has exactly one
\* signup event, dated at the user's signup_date, which is no later than
\* any event of the user; the user's event types are a prefix of signup,
\* login, view_product, add_to_cart, purchase with non-decreasing dates; no
\* event is dated after END_DATE; revenue is above zero on purchase events
\* only; device_type, acquisition_channel and experiment_group are the same
\* on all events of the user.
LoadedCollectionInvariants ==
    \A u \in {e.user_id : e \in raw_df} :
        LET rows  == {e \in raw_df : e.user_id = u}
            types == {e.event_type : e \in rows}
        IN  /\ Cardinality({e \in rows : e.event_type = "signup"}) = 1
            /\ \A e, x \in rows :
                  /\ e.event_type = "signup" => e.event_date = x.signup_date
                  /\ e.signup_date <= x.event_date
                  /\ e.device_type = x.device_type
                  /\ e.acquisition_channel = x.acquisition_channel
                  /\ e.experiment_group = x.experiment_group
            /\ \E k \in 1..Len(FUNNEL_STEPS) :
                  types = {FUNNEL_STEPS[i] : i \in 1..k}
            /\ \A e, x \in rows :
                  StepIndex(e.event_type) < StepIndex(x.event_type) =>
                      e.event_date <= x.event_date
            /\ \A e \in rows :
                  /\ e.event_date <= END_DATE
                  /\ e.revenue >= 0
                  /\ e.revenue > 0 => e.event_type = "purchase"

\* a loaded collection with a user who went through the whole funnel and
\* bought on END_DATE, and a user of the other experiment group who signed
\* up later and has the signup event only
LoadedCollectionInvariantsWitness ==
    /\ \E e \in raw_df : /\ e.event_type = "purchase"
                          /\ e.event_date = END_DATE
                          /\ e.revenue > 0
                          /\ e.signup_date = START_DATE
                          /\ \E x \in raw_df :
                                /\ x.user_id # e.user_id
                                /\ x.experiment_group # e.experiment_group
                                /\ x.signup_date > e.signup_date
                                /\ Cardinality({y \in raw_df : y.user_id = x.user_id}) = 1

=============================================================================
